---- MODULE Spec2Model ----
(***************************************************************************)
(* The Chat screen of agent-chat-finance as a state machine.               *)
(*                                                                         *)
(* Two variants of the screen exist in the repository:                     *)
(*   "redirect"   : src/unnamed/part_000 (conversation id from the URL,    *)
(*                  redirect to the history screen when nothing to load,   *)
(*                  empty webhook bodies rejected)                         *)
(*   "autocreate" : src/src/pages/Chat.tsx (creates 'Nova Conversa' when   *)
(*                  the user has no conversation)                          *)
(* The storage service, the identity service and the webhook are the       *)
(* environment.  A request that races with others over a table (an insert  *)
(* into 'messages', a select of them, a select of the conversations) is    *)
(* executed in one step and its answer consumed in another; every other    *)
(* request is executed in the step that consumes its answer.  A request    *)
(* that fails has no effect on the storage.                                *)
(*                                                                         *)
(* The History screen (src/src/pages/ChatHistory.tsx) is a second state    *)
(* machine over the same storage, HistorySpec.                             *)
(***************************************************************************)
EXTENDS Integers, Sequences, FiniteSets, TLC

\* ---------------------------------------------------------------- bounds
\* invocations of createOrLoadConversation and sendMessage, together, that
\* one screen instance starts
MaxInvocations == 3

\* invocations of loadConversations and createNewConversation, together,
\* that the History screen starts
MaxHistoryInvocations == 3

\* the latest time at which an exchange elsewhere completes
MaxClock == 5

\* ------------------------------------------------------------- constants
NoConv == 0          \* currentConversation === null
NoSession == "null"  \* session === null
Users == {"u1", "u2"}
Variants == {"redirect", "autocreate"}

\* strings are sequences of characters so that trim() can be computed
Inputs == { <<" ">>, <<" ", "a", " ">> }
Bodies == { <<>>, <<" ">>, <<"r">> }

VARIABLES
  variant,             \* which Chat screen file is running
  urlConv,             \* searchParams.get('conversation') (NoConv when absent)
  route,               \* "chat" while the screen is mounted, else where it navigated
  session,             \* useState<Session | null>: the session's user id
  sessionResolved,     \* the getSession() promise of the mount effect has resolved
  messages,            \* useState<Message[]>: ids of the rows shown, in display order
  currentMessage,      \* useState(""): the input field
  isLoading,           \* useState(false): the busy flag
  currentConversation, \* useState<string | null>
  conversationsTable,  \* storage: table 'conversations', id = index
  messagesTable,       \* storage: table 'messages', id = index (append-only)
  clock,               \* the time source stamping created_at / updated_at
  loads,               \* createOrLoadConversation invocations, in start order
  sends                \* sendMessage invocations, in start order

\* the History screen
VARIABLES
  conversations,       \* useState<Conversation[]>([]): ids of the rows listed, in order
  loading,             \* useState(true)
  lists,               \* loadConversations invocations, in start order
  creates              \* createNewConversation invocations, in start order

vars == << variant, urlConv, route, session, sessionResolved, messages,
           currentMessage, isLoading, currentConversation, conversationsTable,
           messagesTable, clock, loads, sends,
           conversations, loading, lists, creates >>

uiVars == << messages, currentMessage, isLoading, currentConversation >>
dbVars == << conversationsTable, messagesTable, clock >>
historyVars == << conversations, loading, lists, creates >>
\* what no step of the Chat screen writes
envVars == << variant, urlConv, historyVars >>

\* ------------------------------------------------------------ pure helpers
IsSpace(c) == c = " "

RECURSIVE TrimStart(_)
TrimStart(s) == IF s # <<>> /\ IsSpace(Head(s)) THEN TrimStart(Tail(s)) ELSE s

RECURSIVE TrimEnd(_)
TrimEnd(s) ==
  IF s # <<>> /\ IsSpace(s[Len(s)]) THEN TrimEnd(SubSeq(s, 1, Len(s) - 1)) ELSE s

\* String.prototype.trim()
Trim(s) == TrimEnd(TrimStart(s))

Mounted == route = "chat"

\* a further invocation may start
MayInvoke == Len(loads) + Len(sends) < MaxInvocations

\* React drops state updates of an unmounted component
SetState(old, new) == IF Mounted THEN new ELSE old

\* ------------------------------------------------------------ the storage
ConvIds == 1..Len(conversationsTable)
MsgIds == 1..Len(messagesTable)

Owner(c) == IF c \in ConvIds THEN conversationsTable[c].user_id ELSE "nobody"

\* .from('conversations').select().eq('id', id).eq('user_id', uid).single()
\* .single() is an error unless exactly one row matches
SelectConversationById(id, uid) ==
  {c \in ConvIds : c = id /\ conversationsTable[c].user_id = uid}

\* SelectMostRecent with {ascending: true}
SelectLeastRecent(uid) ==
  {c \in ConvIds :
     /\ conversationsTable[c].user_id = uid
     /\ \A d \in ConvIds : conversationsTable[d].user_id = uid
           => conversationsTable[d].updated_at >= conversationsTable[c].updated_at}

\* .eq('user_id', uid).order('updated_at', {ascending: false}).limit(1)
SelectMostRecent(uid) ==
  {c \in ConvIds :
     /\ conversationsTable[c].user_id = uid
     /\ \A d \in ConvIds : conversationsTable[d].user_id = uid
           => conversationsTable[d].updated_at <= conversationsTable[c].updated_at}

\* the first of a set of rows in descending created_at order: {ascending: false}
LastByCreatedAt(S) ==
  CHOOSE m \in S : \A n \in S :
     \/ messagesTable[m].created_at > messagesTable[n].created_at
     \/ messagesTable[m].created_at = messagesTable[n].created_at /\ m >= n

\* the first of a set of rows in ascending created_at order (ties by id)
FirstByCreatedAt(S) ==
  CHOOSE m \in S : \A n \in S :
     \/ messagesTable[m].created_at < messagesTable[n].created_at
     \/ messagesTable[m].created_at = messagesTable[n].created_at /\ m <= n

RECURSIVE OrderByCreatedAt(_)
OrderByCreatedAt(S) ==
  IF S = {} THEN <<>>
  ELSE LET m == FirstByCreatedAt(S) IN <<m>> \o OrderByCreatedAt(S \ {m})

\* .from('messages').select('*').eq('conversation_id', c)
\*    .order('created_at', {ascending: true})
SelectMessages(c) ==
  OrderByCreatedAt({m \in MsgIds : messagesTable[m].conversation_id = c})

Conv(u, title, t) == [user_id |-> u, title |-> title, updated_at |-> t]

\* a row of 'messages'; by is the sendMessage invocation that inserted it
\* (0 for rows that existed before the screen was opened)
Msg(c, role, content, t, by) ==
  [conversation_id |-> c, role |-> role, content |-> content,
   created_at |-> t, by |-> by]

\* ------------------------------------------------------------------ Init
\* what the storage holds when the screen is opened
SeedConversations ==
  { << Conv("u1", "Conversa", 1) >>,
    << Conv("u1", "Conversa", 1), Conv("u2", "Conversa", 2) >> }

\* conversation 1 holds one earlier exchange
SeedMessages ==
  << Msg(1, "user", <<"a">>, 1, 0), Msg(1, "assistant", <<"r">>, 2, 0) >>

Init ==
  /\ variant \in Variants
  /\ urlConv \in (IF variant = "redirect" THEN {NoConv, 1} ELSE {NoConv})
  /\ route = "chat"
  /\ session = NoSession
  /\ sessionResolved = FALSE
  /\ messages = <<>>
  /\ currentMessage = <<>>
  /\ isLoading = FALSE
  /\ currentConversation = NoConv
  /\ conversationsTable \in SeedConversations
  /\ messagesTable = SeedMessages
  /\ clock = 2
  /\ loads = <<>>
  /\ sends = <<>>
  /\ conversations = <<>>
  /\ loading = TRUE
  /\ lists = <<>>
  /\ creates = <<>>

\* ------------------------------------------- createOrLoadConversation
\* the invocation started by the [session] effect: the guard, the URL
\* parameter, and the first query issued
NewLoad(u) ==
  [pc    |-> IF variant = "redirect" /\ urlConv # NoConv
             THEN "selConv" ELSE "selRecent",
   user  |-> u,         \* session.user.id of the closure
   conv  |-> NoConv,    \* conversationId
   rows  |-> <<>>,      \* the messages returned
   toast |-> FALSE,     \* the error notification was shown
   outcome |-> ""]      \* how the invocation ended

\* the path on which invocation l returns: through the catch block because
\* .single() found no row ("missing") or a request failed ("error"), or
\* after the redirect ("none"), setMessages(rows) ("loaded") or the
\* conversation created ("created")
LoadOutcome(l, failed) ==
  IF failed
  THEN IF l.pc = "selConv" /\ SelectConversationById(urlConv, l.user) = {}
       THEN "missing" ELSE "error"
  ELSE CASE l.pc = "selRecent" -> "none"
         [] l.pc = "insConv" -> "created"
         [] OTHER -> "loaded"

\* a finished invocation: its locals are dead
LoadDone(l, failed) ==
  [pc |-> "done", user |-> NoSession, conv |-> NoConv, rows |-> <<>>,
   toast |-> failed, outcome |-> LoadOutcome(l, failed)]

screenVars == << route, session, sessionResolved, uiVars >>

\* navigate('/chat-history'): the route changes, the Chat screen unmounts and
\* its state is gone
NavigateHistory ==
  /\ route' = "history"
  /\ session' = NoSession
  /\ sessionResolved' = TRUE
  /\ messages' = <<>>
  /\ currentMessage' = <<>>
  /\ isLoading' = FALSE
  /\ currentConversation' = NoConv

\* the catch block: toast, and in part_000 the redirect
LoadCatch(i) ==
  /\ loads' = [loads EXCEPT ![i] = LoadDone(@, TRUE)]
  /\ IF variant = "redirect" THEN NavigateHistory ELSE UNCHANGED screenVars

\* setSession(s) and the effect that depends on [session]
SetSession(s) ==
  /\ session' = SetState(session, s)
  /\ loads' = IF Mounted /\ s # NoSession THEN Append(loads, NewLoad(s)) ELSE loads

\* supabase.auth.getSession().then(({data: {session}}) => setSession(session))
GetSessionResolved(s) ==
  /\ Mounted
  /\ ~sessionResolved
  /\ s # NoSession => MayInvoke
  /\ sessionResolved' = TRUE
  /\ SetSession(s)
  /\ UNCHANGED << envVars, route, uiVars, dbVars, sends >>

\* the onAuthStateChange callback: (event, session) => setSession(session)
AuthStateChange(s) ==
  /\ Mounted
  /\ IF s = NoSession THEN session # NoSession ELSE MayInvoke
  /\ SetSession(s)
  /\ UNCHANGED << envVars, route, sessionResolved, uiVars, dbVars, sends >>

\* LoadConversationBack without "if (convError) throw convError"
LoadConversationBackUnchecked(i) ==
  /\ loads[i].pc = "selConv"
  /\ currentConversation' = SetState(currentConversation, urlConv)
  /\ loads' = [loads EXCEPT ![i] = [@ EXCEPT !.pc = "selMsgs", !.conv = urlConv]]
  /\ UNCHANGED << route, session, sessionResolved, messages, currentMessage,
                  isLoading >>
  /\ UNCHANGED << envVars, dbVars, sends >>

\* part_000 lines 84-101: the by-id query answered (.single() is an error
\* unless exactly one row matches), then the messages query issued.  Whether
\* a conversation exists for (id, user) never changes while this screen is
\* open, so the query is executed in the step that consumes its answer.
LoadConversationBack(i) ==
  /\ loads[i].pc = "selConv"
  /\ \/ LoadCatch(i)
     \/ /\ Cardinality(SelectConversationById(urlConv, loads[i].user)) = 1
        /\ currentConversation' = SetState(currentConversation, urlConv)
        /\ loads' = [loads EXCEPT ![i] = [@ EXCEPT !.pc = "selMsgs", !.conv = urlConv]]
        /\ UNCHANGED << route, session, sessionResolved, messages, currentMessage,
                        isLoading >>
  /\ UNCHANGED << envVars, dbVars, sends >>

\* part_000 lines 112-147, Chat.tsx lines 77-106: the most-recent query
\* answered (executed in the step that consumes its answer; with equal
\* updated_at the storage may return either row), then the messages query or
\* the insert issued, or the redirect
LoadRecentBack(i) ==
  /\ loads[i].pc = "selRecent"
  /\ \/ LoadCatch(i)
     \/ \E c \in SelectMostRecent(loads[i].user) :
          /\ currentConversation' = SetState(currentConversation, c)
          /\ loads' = [loads EXCEPT ![i] = [@ EXCEPT !.pc = "selMsgs", !.conv = c]]
          /\ UNCHANGED << route, session, sessionResolved, messages, currentMessage,
                          isLoading >>
     \/ /\ SelectMostRecent(loads[i].user) = {}
        /\ IF variant = "redirect"
           THEN /\ NavigateHistory
                /\ loads' = [loads EXCEPT ![i] = LoadDone(@, FALSE)]
           ELSE /\ loads' = [loads EXCEPT ![i] = [@ EXCEPT !.pc = "insConv"]]
                /\ UNCHANGED screenVars
  /\ UNCHANGED << envVars, dbVars, sends >>

\* storage executes the messages query
StorageSelectMessages(i) ==
  /\ loads[i].pc = "selMsgs"
  /\ loads' = [loads EXCEPT ![i] =
       [@ EXCEPT !.pc = "selMsgsBack", !.rows = SelectMessages(loads[i].conv)]]
  /\ UNCHANGED << envVars, screenVars, dbVars, sends >>

\* part_000 lines 103-109 and 138-142, Chat.tsx lines 100-104:
\* setMessages(rows).  A query that fails returns no rows, so its failure
\* is drawn here.
LoadMessagesBack(i) ==
  /\ \/ /\ loads[i].pc = "selMsgs"
        /\ LoadCatch(i)
     \/ /\ loads[i].pc = "selMsgsBack"
        /\ messages' = SetState(messages, loads[i].rows)
        /\ loads' = [loads EXCEPT ![i] = LoadDone(@, FALSE)]
        /\ UNCHANGED << route, session, sessionResolved, currentMessage, isLoading,
                        currentConversation >>
  /\ UNCHANGED << envVars, dbVars, sends >>

\* Chat.tsx lines 107-120: the insert of 'Nova Conversa' answered (executed
\* in the step that consumes its answer), setCurrentConversation, setMessages([])
LoadInsertBack(i) ==
  /\ loads[i].pc = "insConv"
  /\ \/ /\ LoadCatch(i)
        /\ UNCHANGED dbVars
     \/ /\ conversationsTable' =
             Append(conversationsTable, Conv(loads[i].user, "Nova Conversa", clock + 1))
        /\ clock' = clock + 1
        /\ currentConversation' =
             SetState(currentConversation, Len(conversationsTable) + 1)
        /\ messages' = SetState(messages, <<>>)
        /\ loads' = [loads EXCEPT ![i] = LoadDone(@, FALSE)]
        /\ UNCHANGED << route, session, sessionResolved, currentMessage, isLoading,
                        messagesTable >>
  /\ UNCHANGED << envVars, sends >>

\* ---------------------------------------------------------- sendMessage
\* what the screen renders: nothing but a spinner while session is null
ScreenRendered == Mounted /\ session # NoSession

\* the input without its disabled attribute
InputNeverDisabled == FALSE

\* <Input disabled={isLoading}>
InputDisabled == isLoading

\* <Button disabled={!currentMessage.trim() || isLoading}>
ButtonDisabled == Trim(currentMessage) = <<>> \/ isLoading

\* const userMessage = currentMessage.trim()
UserMessage == Trim(currentMessage)

\* the invocation up to its first await: the guard, the two state updates
\* and the insert of the user's message issued
NewSend ==
  [pc          |-> "insUser",
   userMessage |-> UserMessage,
   conv        |-> currentConversation,  \* currentConversation of the closure
   user        |-> session,              \* session.user.id of the closure
   userMsg     |-> 0,         \* userMessageData.id
   status      |-> "",        \* what the webhook answered
   aiResponse  |-> <<>>,
   aiMsg       |-> 0,         \* aiMessageData.id
   updated     |-> FALSE,     \* the timestamp update took effect
   failedAt    |-> "",        \* the step that threw
   toast       |-> FALSE]     \* the error notification was shown

sendMessage ==
  IF Trim(currentMessage) = <<>> \/ currentConversation = NoConv \/ session = NoSession
  THEN UNCHANGED << uiVars, sends >>
  ELSE /\ currentMessage' = <<>>
       /\ isLoading' = TRUE
       /\ sends' = Append(sends, NewSend)
       /\ UNCHANGED << messages, currentConversation >>

\* onChange={(e) => setCurrentMessage(e.target.value)}
TypeMessage(s) ==
  /\ ScreenRendered
  /\ ~InputDisabled
  /\ s # currentMessage
  /\ currentMessage' = s
  /\ UNCHANGED << envVars, route, session, sessionResolved, messages, isLoading,
                  currentConversation, dbVars, loads, sends >>

\* onClick={sendMessage}
ClickSend ==
  /\ ScreenRendered
  /\ ~ButtonDisabled
  /\ MayInvoke
  /\ sendMessage
  /\ UNCHANGED << envVars, route, session, sessionResolved, dbVars, loads >>

\* handleKeyPress with Enter and no shift
PressEnter ==
  /\ ScreenRendered
  /\ ~InputDisabled
  /\ MayInvoke
  /\ sendMessage
  /\ UNCHANGED << envVars, route, session, sessionResolved, dbVars, loads >>

\* a finished invocation: its locals are dead, what it did is kept
SendDone(r, step) ==
  [r EXCEPT !.pc = "done", !.failedAt = step, !.toast = step # "",
            !.user = NoSession, !.aiResponse = <<>>]

\* SendCatch without the finally block
SendCatchKeepsBusy(i, step) ==
  /\ sends' = [sends EXCEPT ![i] = SendDone(@, step)]
  /\ UNCHANGED << messages, currentMessage, currentConversation, isLoading >>

\* SendCatch putting the text back: setCurrentMessage(userMessage)
SendCatchRestoresInput(i, step) ==
  /\ sends' = [sends EXCEPT ![i] = SendDone(@, step)]
  /\ isLoading' = SetState(isLoading, FALSE)
  /\ currentMessage' = SetState(currentMessage, sends[i].userMessage)
  /\ UNCHANGED << messages, currentConversation >>

\* the catch and finally blocks
SendCatch(i, step) ==
  /\ sends' = [sends EXCEPT ![i] = SendDone(@, step)]
  /\ isLoading' = SetState(isLoading, FALSE)
  /\ UNCHANGED << messages, currentMessage, currentConversation >>

\* storage executes an insert into 'messages'
InsertMessage(i, role, content) ==
  /\ messagesTable' =
       Append(messagesTable, Msg(sends[i].conv, role, content, clock + 1, i))
  /\ clock' = clock + 1
  /\ UNCHANGED conversationsTable

StorageInsertUser(i) ==
  /\ sends[i].pc = "insUser"
  /\ InsertMessage(i, "user", sends[i].userMessage)
  /\ sends' = [sends EXCEPT ![i] =
       [@ EXCEPT !.pc = "insUserBack", !.userMsg = Len(messagesTable) + 1]]
  /\ UNCHANGED << envVars, route, session, sessionResolved, uiVars, loads >>

\* SendUserInserted without "if (userError) throw"
SendUserInsertedUnchecked(i) ==
  /\ sends[i].pc \in {"insUser", "insUserBack"}
  /\ messages' = SetState(messages, Append(messages, sends[i].userMsg))
  /\ sends' = [sends EXCEPT ![i] = [@ EXCEPT !.pc = "webhook"]]
  /\ UNCHANGED << envVars, route, session, sessionResolved, currentMessage, isLoading,
                  currentConversation, dbVars, loads >>

\* SendUserInserted with setIsLoading(false) before the webhook is awaited
SendUserInsertedClearsBusy(i) ==
  /\ \/ /\ sends[i].pc = "insUser"
        /\ SendCatch(i, "insUser")
     \/ /\ sends[i].pc = "insUserBack"
        /\ messages' = SetState(messages, Append(messages, sends[i].userMsg))
        /\ isLoading' = SetState(isLoading, FALSE)
        /\ sends' = [sends EXCEPT ![i] = [@ EXCEPT !.pc = "webhook"]]
        /\ UNCHANGED << currentMessage, currentConversation >>
  /\ UNCHANGED << envVars, route, session, sessionResolved, dbVars, loads >>

\* if (userError) throw; setMessages(prev => [...prev, userMessageData]); fetch(...)
\* An insert that fails inserts nothing, so its failure is drawn here.
SendUserInserted(i) ==
  /\ \/ /\ sends[i].pc = "insUser"
        /\ SendCatch(i, "insUser")
     \/ /\ sends[i].pc = "insUserBack"
        /\ messages' = SetState(messages, Append(messages, sends[i].userMsg))
        /\ sends' = [sends EXCEPT ![i] = [@ EXCEPT !.pc = "webhook"]]
        /\ UNCHANGED << currentMessage, isLoading, currentConversation >>
  /\ UNCHANGED << envVars, route, session, sessionResolved, dbVars, loads >>

\* what the webhook can answer: a status and a body, or no answer at all
\* (fetch rejects)
WebhookAnswers ==
  [status : {"2xx"}, body : Bodies] \cup
  { [status |-> "non2xx", body |-> <<>>], [status |-> "neterr", body |-> <<>>] }

\* the status not looked at
ResponseOkUnchecked(st) == TRUE

\* response.ok
ResponseOk(st) == st = "2xx"

\* part_000 line 212: if (!aiResponse || aiResponse.trim() === '') throw;
\* Chat.tsx has no such check
EmptyRejected(body) == variant = "redirect" /\ Trim(body) = <<>>

\* the step that throws on answer r ("" when none does)
WebhookFailure(r) ==
  IF r.status = "neterr" THEN "neterr"
  ELSE IF ~ResponseOk(r.status) THEN "status"
  ELSE IF EmptyRejected(r.body) THEN "empty"
  ELSE ""

\* the webhook's answer consumed; on success the assistant insert is issued.
\* The webhook shares no state with the screen or the storage, so its answer
\* is drawn in the step that consumes it.
SendWebhookBack(i, r) ==
  /\ sends[i].pc = "webhook"
  /\ IF WebhookFailure(r) # ""
     THEN /\ sends' = [sends EXCEPT ![i] =
               SendDone([@ EXCEPT !.status = r.status], WebhookFailure(r))]
          /\ isLoading' = SetState(isLoading, FALSE)
          /\ UNCHANGED << messages, currentMessage, currentConversation >>
     ELSE /\ sends' = [sends EXCEPT ![i] =
               [@ EXCEPT !.pc = "insAi", !.status = r.status, !.aiResponse = r.body]]
          /\ UNCHANGED uiVars
  /\ UNCHANGED << envVars, route, session, sessionResolved, dbVars, loads >>

StorageInsertAi(i) ==
  /\ sends[i].pc = "insAi"
  /\ InsertMessage(i, "assistant", sends[i].aiResponse)
  /\ sends' = [sends EXCEPT ![i] =
       [@ EXCEPT !.pc = "insAiBack", !.aiMsg = Len(messagesTable) + 1]]
  /\ UNCHANGED << envVars, route, session, sessionResolved, uiVars, loads >>

\* SendAiInserted with a compensating delete of the user's row in its catch
SendAiInsertedRollsBack(i) ==
  /\ \/ /\ sends[i].pc = "insAi"
        /\ SendCatch(i, "insAi")
        /\ messagesTable' =
             [messagesTable EXCEPT ![sends[i].userMsg].conversation_id = NoConv]
        /\ UNCHANGED << conversationsTable, clock >>
     \/ /\ sends[i].pc = "insAiBack"
        /\ messages' = SetState(messages, Append(messages, sends[i].aiMsg))
        /\ sends' = [sends EXCEPT ![i] = [@ EXCEPT !.pc = "update"]]
        /\ UNCHANGED << currentMessage, isLoading, currentConversation, dbVars >>
  /\ UNCHANGED << envVars, route, session, sessionResolved, loads >>

\* SendAiInserted putting the reply in front: setMessages(prev => [ai, ...prev])
SendAiInsertedPrepend(i) ==
  /\ \/ /\ sends[i].pc = "insAi"
        /\ SendCatch(i, "insAi")
     \/ /\ sends[i].pc = "insAiBack"
        /\ messages' = SetState(messages, <<sends[i].aiMsg>> \o messages)
        /\ sends' = [sends EXCEPT ![i] = [@ EXCEPT !.pc = "update"]]
        /\ UNCHANGED << currentMessage, isLoading, currentConversation >>
  /\ UNCHANGED << envVars, route, session, sessionResolved, dbVars, loads >>

\* if (aiError) throw; setMessages(prev => [...prev, aiMessageData]); update(...)
SendAiInserted(i) ==
  /\ \/ /\ sends[i].pc = "insAi"
        /\ SendCatch(i, "insAi")
     \/ /\ sends[i].pc = "insAiBack"
        /\ messages' = SetState(messages, Append(messages, sends[i].aiMsg))
        /\ sends' = [sends EXCEPT ![i] = [@ EXCEPT !.pc = "update"]]
        /\ UNCHANGED << currentMessage, isLoading, currentConversation >>
  /\ UNCHANGED << envVars, route, session, sessionResolved, dbVars, loads >>

\* storage executes .update({updated_at: now}).eq('id', currentConversation):
\* the row's updated_at when the update takes effect (ok), unchanged when not
UpdateTimestamp(c, ok) ==
  IF ok /\ c \in ConvIds
  THEN [conversationsTable EXCEPT ![c].updated_at = clock + 1]
  ELSE conversationsTable

\* await supabase...update(...): the client resolves with {error} and never
\* throws, and the result is not looked at; then finally: setIsLoading(false).
\* The update is executed in the step that consumes its answer.
SendUpdateBack(i, ok) ==
  /\ sends[i].pc = "update"
  /\ conversationsTable' = UpdateTimestamp(sends[i].conv, ok)
  /\ clock' = IF ok THEN clock + 1 ELSE clock
  /\ sends' = [sends EXCEPT ![i] = SendDone([@ EXCEPT !.updated = ok], "")]
  /\ isLoading' = SetState(isLoading, FALSE)
  /\ UNCHANGED << envVars, route, session, sessionResolved, messages, currentMessage,
                  currentConversation, messagesTable, loads >>

\* part_000 line 275: goBack
GoBack ==
  /\ variant = "redirect"
  /\ ScreenRendered
  /\ NavigateHistory
  /\ UNCHANGED << envVars, dbVars, loads, sends >>

\* ------------------------------------------------------------------ Next
Next ==
  \/ \E s \in Users \cup {NoSession} : GetSessionResolved(s)
  \/ \E s \in Users \cup {NoSession} : AuthStateChange(s)
  \/ \E i \in 1..Len(loads) : LoadConversationBack(i)
  \/ \E i \in 1..Len(loads) : LoadRecentBack(i)
  \/ \E i \in 1..Len(loads) : StorageSelectMessages(i)
  \/ \E i \in 1..Len(loads) : LoadMessagesBack(i)
  \/ \E i \in 1..Len(loads) : LoadInsertBack(i)
  \/ \E s \in Inputs : TypeMessage(s)
  \/ ClickSend
  \/ PressEnter
  \/ \E i \in 1..Len(sends) : StorageInsertUser(i)
  \/ \E i \in 1..Len(sends) : SendUserInserted(i)
  \/ \E i \in 1..Len(sends) : \E r \in WebhookAnswers : SendWebhookBack(i, r)
  \/ \E i \in 1..Len(sends) : StorageInsertAi(i)
  \/ \E i \in 1..Len(sends) : SendAiInserted(i)
  \/ \E i \in 1..Len(sends) : \E ok \in BOOLEAN : SendUpdateBack(i, ok)
  \/ GoBack

Spec == Init /\ [][Next]_vars

\* a request of sendMessage that is awaited returns: the storage executes
\* it or the answer is consumed
SendProgress ==
  \E i \in 1..Len(sends) :
    \/ StorageInsertUser(i)
    \/ SendUserInserted(i)
    \/ \E r \in WebhookAnswers : SendWebhookBack(i, r)
    \/ StorageInsertAi(i)
    \/ SendAiInserted(i)
    \/ \E ok \in BOOLEAN : SendUpdateBack(i, ok)

\* the Chat screen with every awaited request of a send eventually returning
FairSpec == Spec /\ WF_vars(SendProgress)

TypeOK ==
  /\ variant \in Variants
  /\ route \in {"chat", "history"}
  /\ session \in Users \cup {NoSession}
  /\ isLoading \in BOOLEAN
  /\ Len(sends) + Len(loads) <= MaxInvocations

\* ------------------------------------------------------ the History screen
\* src/src/pages/ChatHistory.tsx.  The Chat screen's own state does not
\* change while the History screen is the one that runs.
chatVars == << variant, messages, currentMessage, isLoading, currentConversation,
               messagesTable, loads, sends >>

HistoryMounted == route = "history"

\* a further invocation may start
HistoryMayInvoke == Len(lists) + Len(creates) < MaxHistoryInvocations

\* the first of a set of conversations in ascending updated_at order
OldestByUpdatedAt(S) ==
  CHOOSE c \in S : \A d \in S :
     \/ conversationsTable[c].updated_at < conversationsTable[d].updated_at
     \/ conversationsTable[c].updated_at = conversationsTable[d].updated_at /\ c <= d

\* LatestByUpdatedAt with {ascending: true}
LatestByUpdatedAtAscending(S) == OldestByUpdatedAt(S)

\* the first of a set of conversations in descending updated_at order
LatestByUpdatedAt(S) ==
  CHOOSE c \in S : \A d \in S :
     \/ conversationsTable[c].updated_at > conversationsTable[d].updated_at
     \/ conversationsTable[c].updated_at = conversationsTable[d].updated_at /\ c <= d

RECURSIVE OrderByUpdatedAt(_)
OrderByUpdatedAt(S) ==
  IF S = {} THEN <<>>
  ELSE LET c == LatestByUpdatedAt(S) IN <<c>> \o OrderByUpdatedAt(S \ {c})

\* .from('conversations').select(...).eq('user_id', uid)
\*    .order('updated_at', {ascending: false})
SelectConversations(uid) ==
  OrderByUpdatedAt({c \in ConvIds : conversationsTable[c].user_id = uid})

\* the user has an older and a newer conversation
HistorySeedConversations ==
  << Conv("u1", "Conversa", 1), Conv("u2", "Conversa", 2), Conv("u1", "Conversa", 3) >>

HistoryInit ==
  /\ variant = "redirect"
  /\ urlConv = NoConv
  /\ route = "history"
  /\ session = NoSession
  /\ sessionResolved = FALSE
  /\ messages = <<>>
  /\ currentMessage = <<>>
  /\ isLoading = FALSE
  /\ currentConversation = NoConv
  /\ conversationsTable = HistorySeedConversations
  /\ messagesTable = SeedMessages
  /\ clock = 3
  /\ loads = <<>>
  /\ sends = <<>>
  /\ conversations = <<>>
  /\ loading = TRUE
  /\ lists = <<>>
  /\ creates = <<>>

\* the invocations of an instance that unmounted: their state updates are
\* dropped from now on
Orphaned(invocations) ==
  [k \in DOMAIN invocations |-> [invocations[k] EXCEPT !.orphan = TRUE]]

\* the invocation still belongs to the instance on screen
Live(r) == HistoryMounted /\ ~r.orphan

\* navigate(to) away from the History screen: the instance unmounts and its
\* state is gone
LeaveHistory(to) ==
  /\ route' = to
  /\ session' = NoSession
  /\ sessionResolved' = FALSE
  /\ conversations' = <<>>
  /\ loading' = TRUE
  /\ lists' = Orphaned(lists)

\* loadConversations up to its await: the guard and the query issued
NewList(u) ==
  [pc |-> "select", user |-> u, rows |-> <<>>, toast |-> FALSE, orphan |-> FALSE]

\* createNewConversation up to its await: the guard and the insert issued
NewCreate(u) ==
  [pc |-> "insert", user |-> u, conv |-> NoConv, at |-> 0, toast |-> FALSE,
   orphan |-> FALSE]

\* setSession(s); if (!s) navigate("/auth"); and the effect on [session]
HistorySetSession(s) ==
  IF s = NoSession
  THEN /\ LeaveHistory("auth")
       /\ creates' = Orphaned(creates)
  ELSE /\ session' = s
       /\ lists' = Append(lists, NewList(s))
       /\ UNCHANGED << route, conversations, loading, creates >>

\* lines 27-32: getSession().then(...)
HistoryGetSessionResolved(s) ==
  /\ HistoryMounted
  /\ ~sessionResolved
  /\ s # NoSession => HistoryMayInvoke
  /\ HistorySetSession(s)
  /\ sessionResolved' = (s # NoSession)
  /\ UNCHANGED << chatVars, urlConv, conversationsTable, clock >>

\* lines 34-41: the onAuthStateChange callback
HistoryAuthStateChange(s) ==
  /\ HistoryMounted
  /\ IF s = NoSession THEN session # NoSession ELSE HistoryMayInvoke
  /\ HistorySetSession(s)
  /\ IF s = NoSession THEN TRUE ELSE UNCHANGED sessionResolved
  /\ UNCHANGED << chatVars, urlConv, conversationsTable, clock >>

\* storage executes the query of loadConversations
StorageSelectConversations(i) ==
  /\ lists[i].pc = "select"
  /\ lists' = [lists EXCEPT ![i] =
       [@ EXCEPT !.pc = "back", !.rows = SelectConversations(lists[i].user)]]
  /\ UNCHANGED << chatVars, urlConv, route, session, sessionResolved,
                  conversationsTable, clock, conversations, loading, creates >>

\* a finished loadConversations: its locals are dead
ListDone(r, failed) ==
  [r EXCEPT !.pc = "done", !.user = NoSession, !.rows = <<>>, !.toast = failed]

\* lines 62-73: if (error) throw; setConversations(data); catch: toast;
\* finally: setLoading(false).  A query that fails returns no rows, so its
\* failure is drawn here.
LoadConversationsBack(i) ==
  /\ \/ /\ lists[i].pc = "select"
        /\ lists' = [lists EXCEPT ![i] = ListDone(@, TRUE)]
        /\ UNCHANGED conversations
     \/ /\ lists[i].pc = "back"
        /\ lists' = [lists EXCEPT ![i] = ListDone(@, FALSE)]
        /\ conversations' = IF Live(lists[i]) THEN lists[i].rows ELSE conversations
  /\ loading' = IF Live(lists[i]) THEN FALSE ELSE loading
  /\ UNCHANGED << chatVars, urlConv, route, session, sessionResolved,
                  conversationsTable, clock, creates >>

\* the list and its buttons are rendered once loading is false
HistoryRendered == HistoryMounted /\ ~loading

\* onClick={createNewConversation}
ClickNewConversation ==
  /\ HistoryRendered
  /\ session # NoSession
  /\ HistoryMayInvoke
  /\ creates' = Append(creates, NewCreate(session))
  /\ UNCHANGED << chatVars, urlConv, route, session, sessionResolved,
                  conversationsTable, clock, conversations, loading, lists >>

\* lines 80-98: the insert answered (executed in the step that consumes its
\* answer): navigate to the Chat screen of the new conversation, or the toast.
\* at is the time of the insert.
CreateConversationBack(i, ok) ==
  /\ creates[i].pc = "insert"
  /\ IF ok
     THEN /\ conversationsTable' =
               Append(conversationsTable,
                      Conv(creates[i].user, "Nova Conversa <data>", clock + 1))
          /\ clock' = clock + 1
          /\ urlConv' = Len(conversationsTable) + 1
          /\ LeaveHistory("chat")
          /\ creates' = Orphaned([creates EXCEPT ![i] =
               [@ EXCEPT !.pc = "done", !.conv = Len(conversationsTable) + 1,
                         !.at = clock + 1]])
     ELSE /\ creates' = [creates EXCEPT ![i] = [@ EXCEPT !.pc = "done", !.toast = TRUE]]
          /\ UNCHANGED << conversationsTable, clock, urlConv, route, session,
                          sessionResolved, conversations, loading, lists >>
  /\ UNCHANGED chatVars

\* lines 106-108: openConversation of a listed row
openConversation(c) ==
  /\ HistoryRendered
  /\ \E j \in 1..Len(conversations) : conversations[j] = c
  /\ urlConv' = c
  /\ LeaveHistory("chat")
  /\ creates' = Orphaned(creates)
  /\ UNCHANGED << chatVars, conversationsTable, clock >>

\* lines 101-104: handleLogout
handleLogout ==
  /\ HistoryRendered
  /\ LeaveHistory("auth")
  /\ creates' = Orphaned(creates)
  /\ UNCHANGED << chatVars, urlConv, conversationsTable, clock >>

\* the Chat screen navigates back (part_000 goBack, or navigate('/chat-history')
\* of createOrLoadConversation): a new instance of the History screen mounts
HistoryReopened ==
  /\ route = "chat"
  /\ route' = "history"
  /\ urlConv' = NoConv
  /\ UNCHANGED << chatVars, session, sessionResolved, conversationsTable, clock,
                  historyVars >>

\* a sendMessage of some Chat screen instance completes an exchange in
\* conversation c: its timestamp update takes effect
ExchangeCompleted(c) ==
  /\ clock < MaxClock
  /\ conversationsTable' = UpdateTimestamp(c, TRUE)
  /\ clock' = clock + 1
  /\ UNCHANGED << chatVars, urlConv, route, session, sessionResolved, historyVars >>

HistoryNext ==
  \/ \E s \in Users \cup {NoSession} : HistoryGetSessionResolved(s)
  \/ \E s \in Users \cup {NoSession} : HistoryAuthStateChange(s)
  \/ \E i \in 1..Len(lists) : StorageSelectConversations(i)
  \/ \E i \in 1..Len(lists) : LoadConversationsBack(i)
  \/ ClickNewConversation
  \/ \E i \in 1..Len(creates) : \E ok \in BOOLEAN : CreateConversationBack(i, ok)
  \/ \E c \in ConvIds : openConversation(c)
  \/ handleLogout
  \/ HistoryReopened
  \/ \E c \in ConvIds : ExchangeCompleted(c)

HistorySpec == HistoryInit /\ [][HistoryNext]_vars

\* ------------------------------------------------------- about the claims
Sends == 1..Len(sends)

\* the rows invocation i inserted with the given role
RowsBy(i, role) ==
  {m \in MsgIds : messagesTable[m].by = i /\ messagesTable[m].role = role}

\* invocation i has issued its webhook request
HookIssued(i) ==
  \/ sends[i].pc \in {"webhook", "insAi", "insAiBack", "update"}
  \/ sends[i].pc = "done" /\ sends[i].failedAt # "insUser"

\* the row of the user's message of invocation i is stored as it was inserted
UserRowKept(i) ==
  /\ sends[i].userMsg \in MsgIds
  /\ RowsBy(i, "user") = {sends[i].userMsg}
  /\ messagesTable[sends[i].userMsg].content = sends[i].userMessage
  /\ messagesTable[sends[i].userMsg].conversation_id = sends[i].conv

\* what trim() can return for the inputs typed
TrimmedInputs == {Trim(s) : s \in Inputs} \ {<<>>}

\* C1: an invocation that passed the guard has at most one 'user' row, and
\* whenever it has issued its webhook request exactly one, holding the trimmed
\* input in the conversation that was active; no webhook request is issued
\* without that row.
C1_UserPersistedBeforeWebhook ==
  \A i \in Sends :
    /\ sends[i].userMessage \in TrimmedInputs
    /\ sends[i].conv # NoConv
    /\ Cardinality(RowsBy(i, "user")) <= 1
    /\ HookIssued(i) => UserRowKept(i)

C1_Witness ==
  \E i \in Sends : sends[i].pc = "webhook" /\ UserRowKept(i)

\* C2: an invocation whose webhook answered non-2xx ends there, has inserted
\* no 'assistant' row, and its 'user' row is still stored as inserted.
C2_Non2xxKeepsUserOnly ==
  \A i \in Sends :
    sends[i].status = "non2xx"
      => /\ sends[i].pc = "done"
         /\ RowsBy(i, "assistant") = {}
         /\ sends[i].aiMsg = 0
         /\ UserRowKept(i)

C2_Witness ==
  \E i \in Sends : sends[i].status = "non2xx" /\ sends[i].pc = "done"
                   /\ sends[i].toast /\ UserRowKept(i)

\* C3 (as claimed): a 2xx answer with an empty or whitespace-only body ends
\* like a non-2xx one in every variant: the assistant insert is never issued
\* for such a body, no such row is stored, and the invocation ends with the
\* notification, its 'user' row kept and no timestamp update.
C3_EmptyBodyFailsEverywhere ==
  \A i \in Sends :
    /\ sends[i].pc \in {"insAi", "insAiBack", "update"}
         => Trim(sends[i].aiResponse) # <<>>
    /\ \A m \in RowsBy(i, "assistant") : Trim(messagesTable[m].content) # <<>>
    /\ (sends[i].pc = "done" /\ sends[i].failedAt = "empty")
         => /\ sends[i].toast
            /\ ~sends[i].updated
            /\ UserRowKept(i)

\* the two rows of a completed exchange, in insertion order
ExchangeRows(i) ==
  /\ UserRowKept(i)
  /\ sends[i].aiMsg \in MsgIds
  /\ RowsBy(i, "assistant") = {sends[i].aiMsg}
  /\ {m \in MsgIds : messagesTable[m].by = i} = {sends[i].userMsg, sends[i].aiMsg}
  /\ sends[i].userMsg < sends[i].aiMsg
  /\ messagesTable[sends[i].userMsg].created_at
       <= messagesTable[sends[i].aiMsg].created_at
  /\ messagesTable[sends[i].aiMsg].conversation_id = sends[i].conv

\* the state part of C4
C4_Rows ==
  \A i \in Sends :
    \* the assistant insert is issued only after the user insert returned
    /\ sends[i].pc \in {"insAi", "insAiBack", "update"} => UserRowKept(i)
    /\ RowsBy(i, "assistant") # {} => RowsBy(i, "user") # {}
    \* the row holds the webhook's response text
    /\ sends[i].pc \in {"insAiBack", "update"}
         => /\ sends[i].aiMsg \in MsgIds
            /\ messagesTable[sends[i].aiMsg].content = sends[i].aiResponse
            /\ messagesTable[sends[i].aiMsg].role = "assistant"
    /\ (sends[i].pc = "done" /\ sends[i].failedAt = "") => ExchangeRows(i)

\* the step part of C4: each of the two rows is appended at the end of the
\* transcript when its insert returns, the user's before the assistant's
C4_Appends ==
  \A i \in Sends :
    /\ (sends[i].pc = "insUserBack" /\ sends'[i].pc = "webhook" /\ Mounted)
         => messages' = Append(messages, sends[i].userMsg)
    /\ (sends[i].pc = "insAiBack" /\ sends'[i].pc = "update" /\ Mounted)
         => /\ messages' = Append(messages, sends[i].aiMsg)
            /\ sends[i].userMsg < sends[i].aiMsg

\* C4: an invocation in which every step succeeds adds exactly two rows to
\* the conversation that was active, the user's (trimmed input) and then the
\* assistant's (the webhook's text), appends them in that order to the
\* transcript, and issues the assistant insert only after the user insert
\* and the webhook have answered.
C4_TwoMessagesInOrder == [](C4_Rows) /\ [][C4_Appends]_vars

C4_Witness ==
  \E i \in Sends :
    /\ sends[i].pc = "done" /\ sends[i].failedAt = "" /\ ExchangeRows(i)
    /\ Mounted
    /\ Len(messages) >= 2
    /\ messages[Len(messages) - 1] = sends[i].userMsg
    /\ messages[Len(messages)] = sends[i].aiMsg

InFlight == {i \in Sends : sends[i].pc # "done"}

\* C5: at most one sendMessage invocation of the screen is in flight, and
\* while one is and the screen is mounted the busy flag is set.
C5_SingleFlight ==
  /\ Cardinality(InFlight) <= 1
  /\ (InFlight # {} /\ Mounted) => isLoading

\* a second send was accepted after the first one finished
C5_Witness ==
  /\ Len(sends) = 2
  /\ sends[1].pc = "done"
  /\ sends[2].pc = "webhook"
  /\ isLoading

CreatedAt(m) == messagesTable[m].created_at

\* C8: the transcript is in non-decreasing created_at order.
C8_TranscriptOrdered ==
  \A j \in 1..(Len(messages) - 1) : CreatedAt(messages[j]) <= CreatedAt(messages[j + 1])

\* a reload ran while a send was in flight, and the transcript holds loaded
\* rows followed by a row that send appended
C8_Witness ==
  /\ Len(loads) = 2
  /\ loads[2].pc = "done"
  /\ \E i \in Sends :
       /\ sends[i].pc \in {"webhook", "insAi", "insAiBack", "update"}
       /\ Len(messages) >= 3
       /\ messages[Len(messages)] = sends[i].userMsg

\* C6 (as claimed): while the screen is mounted every row of the transcript
\* belongs to the conversation held in currentConversation.
C6_TranscriptOfCurrentConversation ==
  Mounted =>
    \A j \in 1..Len(messages) :
      messagesTable[messages[j]].conversation_id = currentConversation

\* invocation i issues a request to the storage or the webhook in this step
IssuesRequest(i) ==
  \/ i > Len(sends)
  \/ /\ i <= Len(sends)
     /\ \/ sends[i].pc = "insUserBack" /\ sends'[i].pc = "webhook"
        \/ sends[i].pc = "webhook" /\ sends'[i].pc = "insAi"

\* C7 (as claimed): whenever sendMessage issues an insert or the webhook
\* request, the conversation it names is owned by the user of the session the
\* screen holds at that moment.
C7_SendsOnlyForSessionUser ==
  [][\A i \in 1..Len(sends') :
       (IssuesRequest(i) /\ route' = "chat" /\ session' # NoSession)
         => Owner(sends'[i].conv) = session']_vars

\* C9 (as claimed): once getSession has answered that there is no session,
\* and none was ever delivered, the user is on the auth screen and no
\* storage request was made.
C9_NoSessionRedirectsToAuth ==
  (sessionResolved /\ session = NoSession /\ loads = <<>>)
    => (route = "auth" /\ sends = <<>>)

\* C10 (as claimed): an exchange that ended without an error notification
\* has refreshed updated_at of its conversation to the time of the exchange.
C10_ExchangeRefreshesUpdatedAt ==
  \A i \in Sends :
    (sends[i].pc = "done" /\ sends[i].failedAt = "" /\ ~sends[i].toast)
      => /\ sends[i].updated
         /\ conversationsTable[sends[i].conv].updated_at
              >= messagesTable[sends[i].aiMsg].created_at

\* --------------------------------------------- resolving the conversation
Loads == 1..Len(loads)

\* invocation i resolves the conversation named in the URL
ByUrl(i) == variant = "redirect" /\ urlConv # NoConv /\ i \in Loads

\* rows is what a messages query for conversation c returns at some moment:
\* rows of c only, in non-decreasing created_at order, none repeated, and
\* every row of c it lacks was inserted after all the rows it holds
IsTranscriptOf(rows, c) ==
  /\ \A j \in 1..Len(rows) :
        rows[j] \in MsgIds /\ messagesTable[rows[j]].conversation_id = c
  /\ \A j, k \in 1..Len(rows) :
        j < k => rows[j] # rows[k] /\ CreatedAt(rows[j]) <= CreatedAt(rows[k])
  /\ \A m \in MsgIds :
        (messagesTable[m].conversation_id = c /\ \A j \in 1..Len(rows) : rows[j] # m)
          => \A j \in 1..Len(rows) : rows[j] < m

\* the state part of C11
C11_Resolved ==
  \A i \in Loads : ByUrl(i) =>
    \* the messages query is issued only for the conversation of the URL,
    \* and only when the user of the invocation owns it
    /\ loads[i].pc \in {"selMsgs", "selMsgsBack"}
         => loads[i].conv = urlConv /\ Owner(urlConv) = loads[i].user
    /\ loads[i].pc = "selMsgsBack" => IsTranscriptOf(loads[i].rows, urlConv)
    /\ loads[i].outcome = "missing"
         => loads[i].toast /\ route = "history" /\ currentConversation = NoConv
    /\ Mounted => currentConversation \in {NoConv, urlConv}

\* the step part of C11
C11_Resolves ==
  \A i \in Loads : ByUrl(i) =>
    /\ (loads[i].pc = "selConv" /\ loads'[i].pc # "selConv")
         => IF Owner(urlConv) # loads[i].user
            THEN /\ loads'[i].pc = "done" /\ loads'[i].toast
                 /\ route' = "history"
                 /\ currentConversation' = NoConv
                 /\ messagesTable' = messagesTable
            ELSE \/ loads'[i].pc = "done" /\ loads'[i].outcome = "error"
                 \/ /\ loads'[i].pc = "selMsgs"
                    /\ Mounted => currentConversation' = urlConv
    /\ (loads[i].pc = "selMsgsBack" /\ loads'[i].pc = "done" /\ Mounted)
         => /\ messages' = loads[i].rows
            /\ currentConversation' = urlConv

\* C11: with a conversation id in the URL that names no conversation of the
\* invocation's user, the invocation ends in the catch block (notification,
\* redirect to the history screen), currentConversation is not set and no
\* messages query is issued; when the conversation exists and the requests
\* succeed, currentConversation is that id and the transcript is set to the
\* rows of that conversation in ascending created_at order.
C11_UrlResolution == [](C11_Resolved) /\ [][C11_Resolves]_vars

\* the URL's conversation was loaded for its owner, then the session changed
\* to a user who does not own it and the second resolution failed
C11_Witness ==
  /\ Len(loads) >= 2
  /\ ByUrl(1)
  /\ loads[1].outcome = "loaded"
  /\ loads[2].outcome = "missing"
  /\ loads[2].toast
  /\ route = "history"

\* the conversations of user u
ConvsOf(u) == {c \in ConvIds : conversationsTable[c].user_id = u}

\* invocation i resolves the conversation without an id in the URL
ByRecency(i) == i \in Loads /\ ~ByUrl(i)

\* the step part of C12
C12_Resolves ==
  \A i \in Loads : (ByRecency(i) /\ loads[i].pc = "selRecent") =>
    \* the query answered with a conversation
    /\ loads'[i].pc = "selMsgs"
         => /\ loads'[i].conv \in ConvsOf(loads[i].user)
            /\ \A d \in ConvsOf(loads[i].user) :
                  conversationsTable[d].updated_at
                    <= conversationsTable[loads'[i].conv].updated_at
            /\ Mounted => currentConversation' = loads'[i].conv
            /\ dbVars' = dbVars
    \* the query answered with none
    /\ (loads'[i].pc # "selRecent" /\ loads'[i].outcome # "error"
          /\ ConvsOf(loads[i].user) = {})
         => /\ dbVars' = dbVars
            /\ IF variant = "redirect"
               THEN loads'[i].outcome = "none" /\ route' = "history"
               ELSE loads'[i].pc = "insConv" /\ route' = route

\* the auto-create part of C12: one row titled 'Nova Conversa' is added for
\* the user, made active, and the transcript emptied
C12_Creates ==
  \A i \in Loads : (loads[i].pc = "insConv" /\ loads'[i].outcome = "created") =>
    /\ variant = "autocreate"
    /\ Len(conversationsTable') = Len(conversationsTable) + 1
    /\ \A c \in ConvIds : conversationsTable'[c] = conversationsTable[c]
    /\ conversationsTable'[Len(conversationsTable')].user_id = loads[i].user
    /\ conversationsTable'[Len(conversationsTable')].title = "Nova Conversa"
    /\ Mounted => /\ currentConversation' = Len(conversationsTable')
                  /\ messages' = <<>>

\* a conversation is created by the auto-create branch only
C12_CreatesOnlyThere ==
  Len(conversationsTable') # Len(conversationsTable)
    => \E i \in Loads : loads[i].pc = "insConv" /\ loads'[i].outcome = "created"

\* C12: without an id in the URL the invocation makes active a conversation
\* of its user with the greatest updated_at; when the user has none,
\* part_000 redirects to the history screen and creates nothing, Chat.tsx
\* creates one conversation titled 'Nova Conversa', makes it active and
\* shows an empty transcript.
C12_MostRecentOrNone ==
  [][C12_Resolves /\ C12_Creates /\ C12_CreatesOnlyThere]_vars

\* a user with two conversations of different age had the newer one chosen
C12_Witness ==
  \E i \in Loads :
    /\ ByRecency(i)
    /\ loads[i].pc = "selMsgs"
    /\ currentConversation = loads[i].conv
    /\ \E d \in ConvsOf(loads[i].user) :
          conversationsTable[d].updated_at
            < conversationsTable[loads[i].conv].updated_at
    /\ \E j \in Loads : loads[j].outcome = "created"

\* ------------------------------------------------------- the history list
Lists == 1..Len(lists)

\* rows enumerates the conversations of user u, each once, in non-increasing
\* updated_at order
IsHistoryOf(rows, u) ==
  /\ {rows[j] : j \in 1..Len(rows)} = ConvsOf(u)
  /\ Len(rows) = Cardinality(ConvsOf(u))
  /\ \A j, k \in 1..Len(rows) :
        j < k => conversationsTable[rows[j]].updated_at
                   >= conversationsTable[rows[k]].updated_at

\* conversation n, created at time t, has had no exchange completed in
\* another conversation of its user since
NotOvertaken(n, t) ==
  \A d \in ConvsOf(Owner(n)) \ {n} : conversationsTable[d].updated_at < t

\* the step part of C13
C13_Lists ==
  \A i \in Lists :
    \* what the query returns
    /\ (lists[i].pc = "select" /\ lists'[i].pc = "back")
         => /\ IsHistoryOf(lists'[i].rows, lists[i].user)
            /\ \A k \in 1..Len(creates) :
                  (creates[k].conv # NoConv /\ creates[k].user = lists[i].user
                    /\ NotOvertaken(creates[k].conv, creates[k].at))
                    => lists'[i].rows[1] = creates[k].conv
    \* what the screen lists
    /\ (lists[i].pc = "back" /\ lists'[i].pc = "done" /\ Live(lists[i]))
         => conversations' = lists[i].rows /\ ~loading'

\* the list on screen changes only by a load answered or by unmounting
C13_ListSetByLoad ==
  conversations' # conversations
    => \/ conversations' = <<>>
       \/ \E i \in Lists : lists[i].pc = "back" /\ conversations' = lists[i].rows

\* C13: loadConversations lists exactly the conversations of its user in
\* descending updated_at order, so a load that follows a successful
\* createNewConversation, with no exchange completed in another conversation
\* in between, lists the new conversation first.
C13_HistoryNewestFirst == [][C13_Lists /\ C13_ListSetByLoad]_vars

\* the History screen, reopened after a conversation was created, lists it
\* first, before the user's older conversations
C13_Witness ==
  /\ HistoryMounted
  /\ ~loading
  /\ Len(conversations) = 3
  /\ \E k \in 1..Len(creates) :
        /\ creates[k].conv = conversations[1]
        /\ NotOvertaken(creates[k].conv, creates[k].at)
  /\ IsHistoryOf(conversations, session)

\* ------------------------------------------------------ failures of a send
\* the state part of C14
C14_Aborted ==
  \A i \in Sends :
    (sends[i].pc = "done" /\ sends[i].failedAt = "insUser")
      => /\ sends[i].toast
         /\ sends[i].userMsg = 0 /\ RowsBy(i, "user") = {}
         /\ sends[i].status = ""
         /\ sends[i].aiMsg = 0 /\ RowsBy(i, "assistant") = {}
         /\ ~sends[i].updated

\* the step part of C14: the step in which the failure is caught
C14_Aborts ==
  \A i \in Sends :
    (sends[i].pc = "insUser" /\ sends'[i].pc # "insUser" /\ messagesTable' = messagesTable)
      => /\ sends'[i].pc = "done" /\ sends'[i].failedAt = "insUser"
         /\ dbVars' = dbVars
         /\ messages' = messages
         /\ Mounted => currentMessage = <<>> /\ currentMessage' = <<>> /\ ~isLoading'

\* C14: when the insert of the user's message fails the invocation ends
\* there: no webhook request, no assistant row, no timestamp update, the
\* transcript as it was, the notification shown and the input still empty.
C14_UserInsertFailureAborts == [](C14_Aborted) /\ [][C14_Aborts]_vars

\* the insert failed with a loaded transcript on screen
C14_Witness ==
  /\ Mounted
  /\ Len(messages) = 2
  /\ currentMessage = <<>>
  /\ ~isLoading
  /\ \E i \in Sends :
        sends[i].pc = "done" /\ sends[i].failedAt = "insUser" /\ sends[i].toast

\* invocation i ended by a failure of its webhook call or assistant insert
FailedBeforeReply(i) ==
  sends[i].pc = "done" /\ sends[i].failedAt \in {"neterr", "status", "empty", "insAi"}

\* invocation i ended with its timestamp update not taking effect
FailedAtUpdate(i) ==
  sends[i].pc = "done" /\ sends[i].failedAt = "" /\ ~sends[i].updated

\* C15 (as claimed): a failure of any step after the user insert, the
\* timestamp update included, leaves the user's row stored and no assistant
\* row for that exchange.
C15_AnyLaterFailureLeavesNoReply ==
  \A i \in Sends :
    (FailedBeforeReply(i) \/ FailedAtUpdate(i))
      => UserRowKept(i) /\ RowsBy(i, "assistant") = {}

\* the state part of C15 as amended
C15_Kept ==
  \A i \in Sends :
    /\ FailedBeforeReply(i) => UserRowKept(i) /\ RowsBy(i, "assistant") = {}
    /\ FailedAtUpdate(i) => ExchangeRows(i)

\* no step removes or rewrites a stored row, or turns a timestamp back
C15_NoUndo ==
  /\ Len(messagesTable') >= Len(messagesTable)
  /\ \A m \in MsgIds : messagesTable'[m] = messagesTable[m]
  /\ Len(conversationsTable') >= Len(conversationsTable)
  /\ \A c \in ConvIds :
        /\ conversationsTable'[c].user_id = conversationsTable[c].user_id
        /\ conversationsTable'[c].title = conversationsTable[c].title
        /\ conversationsTable'[c].updated_at >= conversationsTable[c].updated_at

\* C15 (amended): a failure of the webhook call or of the assistant insert
\* leaves the user's row stored and no assistant row for that exchange; a
\* failure of the timestamp update leaves both rows stored; no step deletes
\* or rolls back an earlier write.
C15_NoRollback == [](C15_Kept) /\ [][C15_NoUndo]_vars

\* one exchange ended at its assistant insert, another at its timestamp update
C15_Witness ==
  \E i, j \in Sends :
    /\ sends[i].pc = "done" /\ sends[i].failedAt = "insAi" /\ UserRowKept(i)
    /\ FailedAtUpdate(j) /\ ExchangeRows(j)

\* C16 (as claimed): every invocation of the Chat screen one of whose
\* requests failed (the timestamp update of a send included) has shown the
\* error notification.
C16_EveryFailureNotified ==
  /\ \A i \in Loads : loads[i].outcome \in {"error", "missing"} => loads[i].toast
  /\ \A i \in Sends :
        (sends[i].pc = "done" /\ (sends[i].failedAt # "" \/ FailedAtUpdate(i)))
          => sends[i].toast

\* ------------------------------------------------------- the busy flag
\* invocation i awaits the webhook's answer
AwaitsWebhook(i) == sends[i].pc = "webhook"

\* the state part of C17
C17_Stalled ==
  \A i \in Sends :
    (AwaitsWebhook(i) /\ Mounted) => isLoading /\ InputDisabled /\ ButtonDisabled

\* the step part of C17: nothing but the webhook's answer moves the
\* invocation on, and no step of the mounted screen clears the flag before
C17_OnlyTheAnswerEnds ==
  \A i \in Sends : AwaitsWebhook(i) =>
    /\ sends'[i].pc # "webhook" => sends'[i].status # ""
    /\ (sends'[i].pc = "webhook" /\ route' = "chat") => isLoading'
    /\ sends'[i].pc = "webhook" => sends'[i] = sends[i]

\* C17: while a send awaits the webhook the busy flag is set and the input
\* and the send control are disabled, and only the webhook's answer ends
\* that: no other step of the screen clears the flag or ends the send.
C17_WebhookStallsSending == [](C17_Stalled) /\ [][C17_OnlyTheAnswerEnds]_vars

\* the send still waits after the session changed and the conversation was
\* resolved again
C17_Witness ==
  /\ ScreenRendered
  /\ isLoading
  /\ Len(loads) = 2
  /\ loads[2].pc = "done"
  /\ \E i \in Sends : AwaitsWebhook(i)

\* the i-th sendMessage invocation is in flight / has returned
Sending(i) == i <= Len(sends) /\ sends[i].pc # "done"
Returned(i) == i <= Len(sends) /\ sends[i].pc = "done"

\* C18: with every awaited request eventually returning, each sendMessage
\* invocation that set the busy flag returns, on success or on a failure at
\* any step, and the flag is cleared; once no send is in flight the flag of
\* the mounted screen is clear, so that the controls accept a new send.
C18_BusyEventuallyCleared ==
  /\ \A i \in 1..MaxInvocations : Sending(i) ~> Returned(i)
  /\ isLoading ~> ~isLoading
  /\ []((Mounted /\ InFlight = {}) => ~isLoading)

\* two sends returned one after the other, the first on a failure, and the
\* flag is clear
C18_Witness ==
  /\ ScreenRendered
  /\ ~isLoading
  /\ ~InputDisabled
  /\ Len(sends) = 2
  /\ Returned(1) /\ sends[1].failedAt # ""
  /\ Returned(2) /\ sends[2].failedAt = ""

\* ------------------------------------------------------------ concurrency
\* C19 (as claimed): no stored message is shown twice in the transcript.
C19_NoDuplicateInTranscript ==
  \A j, k \in 1..Len(messages) : j # k => messages[j] # messages[k]

\* the conversations the auto-create branch made for user u
AutoCreatedFor(u) ==
  {c \in ConvsOf(u) : conversationsTable[c].title = "Nova Conversa"}

\* C20 (as claimed): in Chat.tsx one mount of the screen auto-creates at most
\* one conversation for a user, however often the session is set.
C20_OneAutoCreatedConversation ==
  variant = "autocreate" => \A u \in Users : Cardinality(AutoCreatedFor(u)) <= 1

====
